---- MODULE Spec2Model ----
(***************************************************************************)
(* Model of rplugin/python3/defx/column/git.py (defx-git): the git status  *)
(* column of a file tree.  Python strings are sequences of one-character   *)
(* strings, so that slicing, startswith, replace, split and strip are      *)
(* computed the way the interpreter computes them.                         *)
(***************************************************************************)
EXTENDS Integers, Sequences, FiniteSets, TLC

VARIABLES
    git_root,     \* self.git_root: None or a path
    cache,        \* self.cache: list of raw status lines
    call,         \* the candidate of the most recent get()
    ret,          \* the value the most recent get() returned
    exc,          \* the exception the most recent get() let escape
    root_out,     \* stdout of the root query run by the most recent get()
    refreshes,    \* number of status queries run by the most recent get()
    status_out,   \* lines printed by the most recent status query, in order
    status_cwd,   \* working directory of the most recent status query
    probe,        \* a remembered (candidate, label) answer since the last refresh
    us, them,     \* arguments of a direct get_indicator_name call
    name,         \* its result
    pc            \* "idle" before the direct call, "done" after it

vars == <<git_root, cache, call, ret, exc, root_out, refreshes,
          status_out, status_cwd, probe, us, them, name, pc>>

----------------------------------------------------------------------------
(* Bounds *)

\* longest status listing the status query prints
MaxLines == 3

----------------------------------------------------------------------------
(* Python values and string primitives *)

\* Python's None; distinct from every string because its element is not one character
None == <<"None">>

\* str(x), as used by the f-string of find_in_cache
Str(x) == IF x = None THEN <<"N", "o", "n", "e">> ELSE x

\* s[k:]
SliceFrom(s, k) == IF k >= Len(s) THEN <<>> ELSE SubSeq(s, k + 1, Len(s))

\* s.startswith(p)
StartsWith(s, p) == Len(p) <= Len(s) /\ SubSeq(s, 1, Len(p)) = p

\* s.replace(old, ''): every non-overlapping occurrence, left to right
RECURSIVE Replace(_, _)
Replace(s, old) ==
    IF s = <<>> THEN <<>>
    ELSE IF StartsWith(s, old) THEN Replace(SliceFrom(s, Len(old)), old)
    ELSE <<Head(s)>> \o Replace(Tail(s), old)

\* s.lstrip('\n')
RECURSIVE LStripNL(_)
LStripNL(s) == IF s # <<>> /\ Head(s) = "\n" THEN LStripNL(Tail(s)) ELSE s

\* s.rstrip('\n')
RECURSIVE RStripNL(_)
RStripNL(s) ==
    IF s # <<>> /\ s[Len(s)] = "\n" THEN RStripNL(SubSeq(s, 1, Len(s) - 1)) ELSE s

\* s.strip('\n')
StripNL(s) == RStripNL(LStripNL(s))

\* s.split('\n'): the pieces between newlines, empty pieces included
RECURSIVE SplitFrom(_, _, _)
SplitFrom(s, i, cur) ==
    IF i > Len(s) THEN <<cur>>
    ELSE IF s[i] = "\n" THEN <<cur>> \o SplitFrom(s, i + 1, <<>>)
    ELSE SplitFrom(s, i + 1, Append(cur, s[i]))

\* s.split(): the pieces between runs of white space
RECURSIVE SplitWordsFrom(_, _, _)
SplitWordsFrom(s, i, cur) ==
    IF i > Len(s) THEN <<cur>>
    ELSE IF s[i] \in {"\n", " "} THEN <<cur>> \o SplitWordsFrom(s, i + 1, <<>>)
    ELSE SplitWordsFrom(s, i + 1, Append(cur, s[i]))

SplitNL_on_white_space(s) == SplitWordsFrom(s, 1, <<>>)

SplitNL(s) == SplitFrom(s, 1, <<>>)

\* the text a process prints when it writes each line followed by a newline
RECURSIVE Emit(_)
Emit(lines) == IF lines = <<>> THEN <<>> ELSE Head(lines) \o <<"\n">> \o Emit(Tail(lines))

\* [x for x in seq if x != '']
RECURSIVE NonEmpty(_)
NonEmpty(seq) ==
    IF seq = <<>> THEN <<>>
    ELSE IF Head(seq) = <<>> THEN NonEmpty(Tail(seq))
    ELSE <<Head(seq)>> \o NonEmpty(Tail(seq))

\* reversed(seq)
Reverse(seq) == [i \in 1..Len(seq) |-> seq[Len(seq) + 1 - i]]

----------------------------------------------------------------------------
(* Configuration read in __init__ *)

column_length == 1

indicators ==
    [n \in {"Modified", "Staged", "Renamed", "Unmerged", "Untracked", "Ignored", "Unknown"} |->
        CASE n = "Modified"  -> <<"m">>
          [] n = "Staged"    -> <<"s">>
          [] n = "Renamed"   -> <<"r">>
          [] n = "Unmerged"  -> <<"u">>
          [] n = "Untracked" -> <<"t">>
          [] n = "Ignored"   -> <<"i">>
          [] n = "Unknown"   -> <<"k">>]

\* format(column, '<N'): left-justify, pad with spaces to the column length
format(column) ==
    IF Len(column) >= column_length THEN column
    ELSE column \o [i \in 1..(column_length - Len(column)) |-> " "]

----------------------------------------------------------------------------
(* get_indicator_name *)

get_indicator_name_unmerged_first(u, t) ==
    IF u = "?" /\ t = "?" THEN "Untracked"
    ELSE IF u = " " /\ t = "M" THEN "Modified"
    ELSE IF (u = "U" \/ t = "U" \/ (u = "A" /\ t = "A") \/ (u = "D" /\ t = "D")) THEN "Unmerged"
    ELSE IF u \in {"M", "A", "C"} THEN "Staged"
    ELSE IF u = "R" THEN "Renamed"
    ELSE IF u = "!" THEN "Ignored"
    ELSE "Unknown"

get_indicator_name(u, t) ==
    IF u = "?" /\ t = "?" THEN "Untracked"
    ELSE IF u = " " /\ t = "M" THEN "Modified"
    ELSE IF u \in {"M", "A", "C"} THEN "Staged"
    ELSE IF u = "R" THEN "Renamed"
    ELSE IF u = "!" THEN "Ignored"
    ELSE IF (u = "U" \/ t = "U" \/ (u = "A" /\ t = "A") \/ (u = "D" /\ t = "D")) THEN "Unmerged"
    ELSE "Unknown"

----------------------------------------------------------------------------
(* sort and sorted(results, key=cmp_to_key(self.sort)) *)

\* s[i-1] of Python; past the end of s it is '', which stands for the
\* IndexError that sort_raises reports
Char(s, i) == IF i <= Len(s) THEN s[i] ELSE ""

sort_modified_always_first(a, b) ==
    IF Char(a, 1) = "U" \/ Char(a, 2) = "U" THEN -1
    ELSE IF Char(a, 1) = "M" \/ Char(a, 2) = "M" THEN -1
    ELSE 1

sort(a, b) ==
    IF Char(a, 1) = "U" \/ Char(a, 2) = "U" THEN -1
    ELSE IF (Char(a, 1) = "M" \/ Char(a, 2) = "M")
            /\ ~(Char(b, 1) = "U" \/ Char(b, 2) = "U") THEN -1
    ELSE 1

\* sort(a, b) indexes a line past its end: the `or` and `and` of lines 119
\* and 122 evaluate left to right and stop as soon as the result is known
sort_raises(a, b) ==
    IF Len(a) < 1 THEN TRUE
    ELSE IF a[1] = "U" THEN FALSE
    ELSE IF Len(a) < 2 THEN TRUE
    ELSE IF a[2] = "U" THEN FALSE
    ELSE IF ~(a[1] = "M" \/ a[2] = "M") THEN FALSE
    ELSE IF Len(b) < 1 THEN TRUE
    ELSE IF b[1] = "U" THEN FALSE
    ELSE Len(b) < 2

\* K(a) < K(b) for the keys cmp_to_key builds
KeyLess(a, b) == sort(a, b) < 0

\* count_run of the list sort: length of the run that starts the list, and
\* whether it is a strictly descending one
RECURSIVE RunEnd(_, _, _)
RunEnd(a, i, descending) ==
    IF i > Len(a) THEN Len(a)
    ELSE IF KeyLess(a[i], a[i - 1]) = descending THEN RunEnd(a, i + 1, descending)
    ELSE i - 1

\* the binary search of binarysort: where pivot goes in a[l+1 .. r]
RECURSIVE BinPos(_, _, _, _)
BinPos(a, pivot, l, r) ==
    IF l >= r THEN l
    ELSE LET p == l + ((r - l) \div 2) IN
         IF KeyLess(pivot, a[p + 1]) THEN BinPos(a, pivot, l, p)
         ELSE BinPos(a, pivot, p + 1, r)

\* binarysort: insert a[start+1 ..] one by one into the sorted prefix
RECURSIVE BinarySort(_, _)
BinarySort(a, start) ==
    IF start >= Len(a) THEN a
    ELSE LET pivot == a[start + 1]
             l == BinPos(a, pivot, 0, start)
             moved == SubSeq(a, 1, l) \o <<pivot>> \o SubSeq(a, l + 1, start)
                      \o SubSeq(a, start + 2, Len(a))
         IN BinarySort(moved, start + 1)

\* a comparison of the run detection raises
RECURSIVE RunRaises(_, _, _)
RunRaises(a, i, descending) ==
    IF i > Len(a) THEN FALSE
    ELSE \/ sort_raises(a[i], a[i - 1])
         \/ (KeyLess(a[i], a[i - 1]) = descending /\ RunRaises(a, i + 1, descending))

\* a comparison of the binary search raises
RECURSIVE BinRaises(_, _, _, _)
BinRaises(a, pivot, l, r) ==
    IF l >= r THEN FALSE
    ELSE LET p == l + ((r - l) \div 2) IN
         \/ sort_raises(pivot, a[p + 1])
         \/ IF KeyLess(pivot, a[p + 1]) THEN BinRaises(a, pivot, l, p)
            ELSE BinRaises(a, pivot, p + 1, r)

\* a comparison of binarysort raises
RECURSIVE BinarySortRaises(_, _)
BinarySortRaises(a, start) ==
    IF start >= Len(a) THEN FALSE
    ELSE LET pivot == a[start + 1]
             l == BinPos(a, pivot, 0, start)
             moved == SubSeq(a, 1, l) \o <<pivot>> \o SubSeq(a, l + 1, start)
                      \o SubSeq(a, start + 2, Len(a))
         IN BinRaises(a, pivot, 0, start) \/ BinarySortRaises(moved, start + 1)

\* sorted() lets an exception of the comparator escape
SortedRaises(a) ==
    IF Len(a) < 2 THEN FALSE
    ELSE \/ sort_raises(a[2], a[1])
         \/ LET descending == KeyLess(a[2], a[1])
                n == RunEnd(a, 3, descending)
                run == SubSeq(a, 1, n)
                first == (IF descending THEN Reverse(run) ELSE run)
                            \o SubSeq(a, n + 1, Len(a))
            IN RunRaises(a, 3, descending) \/ BinarySortRaises(first, n)

\* sorted(): for a list shorter than the minimum run length the list sort is
\* one run detection followed by a binary insertion sort
Sorted(a) ==
    IF Len(a) < 2 THEN a
    ELSE LET descending == KeyLess(a[2], a[1])
             n == RunEnd(a, 3, descending)
             run == SubSeq(a, 1, n)
             first == (IF descending THEN Reverse(run) ELSE run) \o SubSeq(a, n + 1, Len(a))
         IN BinarySort(first, n)

----------------------------------------------------------------------------
(* The environment: the file system, the git binary and the tree UI *)

RepoR   == <<"/", "r">>              \* a work tree
RepoR2  == <<"/", "r", "2">>         \* another work tree, a sibling of RepoR
Outside == <<"/", "d">>              \* a directory inside no work tree
Link    == <<"/", "l">>              \* a symbolic link to RepoR

\* what `git rev-parse --show-toplevel` prints on stdout when run in path
\* (stderr goes to os.devnull)
TopLevelStdout(path) ==
    CASE path = RepoR  -> RepoR \o <<"\n">>
      [] path = RepoR2 -> RepoR2 \o <<"\n">>
      [] path = Link   -> RepoR \o <<"\n">>
      [] OTHER         -> <<>>

\* outcomes of subprocess.run for the root query: it returns the completed
\* process whatever the exit status (check is not set), or raises when the
\* binary or the working directory cannot be used
RootRuns(path) ==
    { [raised |-> FALSE, stdout |-> TopLevelStdout(path)],
      [raised |-> TRUE,  stdout |-> <<>>] }

\* porcelain status lines: codes at offsets 0 and 1, a space, the path
LineUU == <<"U", "U", " ", "d", "/", "x">>
LineWM == <<" ", "M", " ", "d", "/", "y">>
LineMI == <<"M", " ", " ", "d", "z">>
LineQQ == <<"?", "?", " ", "d", "/", "w">>

Lines == {LineUU, LineWM, LineMI, LineQQ}

\* what git prints on the merged stderr when the status query fails
FatalLine == <<"f", "a", "t", "a", "l", ":", " ", "x">>

\* a line shorter than the two codes and the separator
ShortLine == <<"x">>

\* a line whose path contains a space
LineSP == <<"A", " ", " ", "d", " ", "e">>

\* a status listing names each path once
Listings ==
    UNION { { l \in [1..n -> Lines] : \A i, j \in 1..n : l[i] = l[j] => i = j } : n \in 0..MaxLines }

\* listings with a malformed line or with a space in a path
OddListings ==
    { <<ShortLine>>, <<ShortLine, LineQQ>>, <<LineQQ, ShortLine>>,
      <<LineSP>>, <<LineSP, LineUU>> }

\* outcomes of subprocess.run for the status query: a listing, the error text
\* of a failed query, or an exception raised before the process ran
StatusRuns ==
    { [raised |-> FALSE, lines |-> l] : l \in Listings \cup OddListings }
        \cup { [raised |-> FALSE, lines |-> <<FatalLine>>],
               [raised |-> TRUE,  lines |-> <<>>] }

\* candidates the tree UI asks about
Candidate(p, root, dir) == [path |-> p, is_root |-> root, is_directory |-> dir]

RootCandidates == { Candidate(p, TRUE, TRUE) : p \in {RepoR, RepoR2, Outside, Link} }

EntryCandidates ==
    { Candidate(RepoR \o <<"/", "d">>, FALSE, TRUE),
      Candidate(RepoR \o <<"/", "d">>, FALSE, FALSE),
      Candidate(RepoR \o <<"/", "d", "/", "x">>, FALSE, FALSE),
      Candidate(RepoR2 \o <<"/", "d">>, FALSE, TRUE),
      Candidate(RepoR \o <<"/", "d", "/", "r", "/", "z">>, FALSE, FALSE) }

Candidates == RootCandidates \cup EntryCandidates

\* status codes a direct get_indicator_name call is tried on
Codes == {" ", "M", "A", "C", "R", "!", "U", "D", "?", "T", "X"}

\* markers of the bookkeeping variables
NoCall   == Candidate(<<>>, FALSE, FALSE)
NoValue  == <<"no value">>
NotRun   == <<"not run">>
Raised   == <<"raised">>
NoProbe  == [cand |-> NoCall, label |-> NoValue, again |-> FALSE]

----------------------------------------------------------------------------
(* find_git_root, cache_status, find_in_cache *)

find_git_root_keeps_empty(decoded) == StripNL(decoded)

\* the value returned for the decoded stdout of the root query
find_git_root(decoded) ==
    IF decoded = <<>> THEN None ELSE StripNL(decoded)

\* cache_status lets the IndexError of the comparator escape (line 103)
cache_status_raises(decoded) ==
    decoded # <<>> /\ SortedRaises(NonEmpty(SplitNL(decoded)))

\* the cache left by cache_status for the decoded stdout of the status query:
\* line 87 empties it, line 103 assigns it unless sorted() raised
cache_status(decoded) ==
    IF decoded = <<>> THEN <<>>
    ELSE IF cache_status_raises(decoded) THEN <<>>
    ELSE Sorted(NonEmpty(SplitNL(decoded)))

\* cache_status on the decoded stdout of each outcome of the status query
\* that returns a completed process
Refreshed ==
    [ l \in { sr.lines : sr \in { r \in StatusRuns : ~r.raised } } |-> cache_status(Emit(l)) ]

RefreshRaises ==
    [ l \in { sr.lines : sr \in { r \in StatusRuns : ~r.raised } } |->
        cache_status_raises(Emit(l)) ]

Min(S) == CHOOSE x \in S : \A y \in S : x <= y
Max(S) == CHOOSE x \in S : \A y \in S : x >= y

find_in_cache_last_match(items, root, candidate) ==
    LET path == Replace(candidate.path, Str(root) \o <<"/">>)
                    \o (IF candidate.is_directory THEN <<"/">> ELSE <<>>)
        hits == { i \in 1..Len(items) : StartsWith(SliceFrom(items[i], 3), path) }
    IN IF hits = {} THEN <<>> ELSE items[Max(hits)]

RECURSIVE LStripSlash(_)
LStripSlash(s) == IF s # <<>> /\ Head(s) = "/" THEN LStripSlash(Tail(s)) ELSE s

find_in_cache_relative(items, root, candidate) ==
    LET path == LStripSlash(Replace(candidate.path, Str(root) \o <<"/">>))
                    \o (IF candidate.is_directory THEN <<"/">> ELSE <<>>)
        hits == { i \in 1..Len(items) : StartsWith(SliceFrom(items[i], 3), path) }
    IN IF hits = {} THEN <<>> ELSE items[Min(hits)]

\* the first item whose text from offset 3 starts with the candidate's path,
\* '' when there is none
find_in_cache(items, root, candidate) ==
    LET path == Replace(candidate.path, Str(root) \o <<"/">>)
                    \o (IF candidate.is_directory THEN <<"/">> ELSE <<>>)
        hits == { i \in 1..Len(items) : StartsWith(SliceFrom(items[i], 3), path) }
    IN IF hits = {} THEN <<>> ELSE items[Min(hits)]

\* the values `a is not b` can take: None is one object; two strings of
\* different value are two objects; whether two strings of equal value are
\* one object is up to the interpreter
is_not(a, b) ==
    IF a # b THEN {TRUE}
    ELSE IF a = None THEN {FALSE}
    ELSE BOOLEAN

----------------------------------------------------------------------------
(* get *)

\* lines 52-62: the label for a candidate, from the cache
entry_label(items, root, candidate) ==
    IF items = <<>> THEN format(<<>>)
    ELSE LET entry == find_in_cache(items, root, candidate) IN
         IF entry = <<>> THEN format(<<>>)
         ELSE format(indicators[get_indicator_name(entry[1], entry[2])])

\* bookkeeping: remember the answer given for a candidate, or note that the
\* remembered candidate was asked about again
Remember(c, label) ==
    IF c.is_root THEN probe' = probe
    ELSE probe' \in { IF probe.cand = c THEN [probe EXCEPT !.again = TRUE] ELSE probe,
                      [cand |-> c, label |-> label, again |-> FALSE] }

get_entry_consuming(c, rq) ==
    LET entry == find_in_cache(cache, git_root, c) IN
    /\ ret' = entry_label(cache, git_root, c)
    /\ cache' = NonEmpty([i \in 1..Len(cache) |-> IF cache[i] = entry THEN <<>> ELSE cache[i]])
    /\ exc' = "none"
    /\ call' = c
    /\ root_out' = rq
    /\ refreshes' = 0
    /\ Remember(c, ret')
    /\ UNCHANGED <<git_root, status_out, status_cwd, us, them, name, pc>>

\* lines 52-62 of get: answer from the cache, touching nothing
get_entry(c, rq) ==
    /\ ret' = entry_label(cache, git_root, c)
    /\ exc' = "none"
    /\ call' = c
    /\ root_out' = rq
    /\ refreshes' = 0
    /\ Remember(c, ret')
    /\ UNCHANGED <<git_root, cache, status_out, status_cwd, us, them, name, pc>>

get_refresh_keeps_on_raise(c, decoded_root, new_root) ==
    \E sr \in StatusRuns :
        /\ git_root' = new_root
        /\ call' = c
        /\ root_out' = decoded_root
        /\ refreshes' = 1
        /\ status_cwd' = new_root
        /\ status_out' = sr.lines
        /\ probe' = NoProbe
        /\ IF sr.raised
           THEN /\ cache' = cache
                /\ ret' = NoValue
                /\ exc' = "FileNotFoundError"
           ELSE /\ cache' = Refreshed[sr.lines]
                /\ IF RefreshRaises[sr.lines]
                   THEN ret' = NoValue /\ exc' = "IndexError"
                   ELSE ret' = format(<<>>) /\ exc' = "none"
        /\ UNCHANGED <<us, them, name, pc>>

\* lines 47-50 of get: the root changed; cache_status runs the status query
get_refresh(c, decoded_root, new_root) ==
    \E sr \in StatusRuns :
        /\ git_root' = new_root
        /\ call' = c
        /\ root_out' = decoded_root
        /\ refreshes' = 1
        /\ status_cwd' = new_root
        /\ status_out' = sr.lines
        /\ probe' = NoProbe
        /\ IF sr.raised
           THEN /\ cache' = <<>>
                /\ ret' = NoValue
                /\ exc' = "FileNotFoundError"
           ELSE /\ cache' = Refreshed[sr.lines]
                /\ IF RefreshRaises[sr.lines]
                   THEN ret' = NoValue /\ exc' = "IndexError"
                   ELSE ret' = format(<<>>) /\ exc' = "none"
        /\ UNCHANGED <<us, them, name, pc>>

get(c) ==
    IF c.is_root
    THEN IF git_root # None /\ StartsWith(c.path, git_root)
         THEN /\ ret' = format(<<>>)
              /\ exc' = "none"
              /\ call' = c
              /\ root_out' = NotRun
              /\ refreshes' = 0
              /\ UNCHANGED <<git_root, cache, status_out, status_cwd, probe, us, them, name, pc>>
         ELSE \E rr \in RootRuns(c.path) :
                IF rr.raised
                THEN /\ ret' = NoValue
                     /\ exc' = "FileNotFoundError"
                     /\ call' = c
                     /\ root_out' = Raised
                     /\ refreshes' = 0
                     /\ UNCHANGED <<git_root, cache, status_out, status_cwd, probe,
                                    us, them, name, pc>>
                ELSE LET new_root == find_git_root(rr.stdout) IN
                     \E changed \in is_not(new_root, git_root) :
                        IF changed
                        THEN get_refresh(c, rr.stdout, new_root)
                        ELSE get_entry(c, rr.stdout)
    ELSE get_entry(c, NotRun)

\* a direct call of the classifier on a pair of codes
Classify ==
    /\ pc = "idle"
    /\ name' = get_indicator_name(us, them)
    /\ pc' = "done"
    /\ UNCHANGED <<git_root, cache, call, ret, exc, root_out, refreshes,
                   status_out, status_cwd, probe, us, them>>

----------------------------------------------------------------------------
(* Specifications *)

InitColumn ==
    /\ git_root = None
    /\ cache = <<>>
    /\ call = NoCall
    /\ ret = NoValue
    /\ exc = "none"
    /\ root_out = NotRun
    /\ refreshes = 0
    /\ status_out = <<>>
    /\ status_cwd = NotRun
    /\ probe = NoProbe

Init ==
    /\ InitColumn
    /\ us = " " /\ them = " " /\ name = "" /\ pc = "idle"

Next == \E c \in Candidates : get(c)

Spec == Init /\ [][Next]_vars

InitClassify ==
    /\ InitColumn
    /\ us \in Codes /\ them \in Codes /\ name = "" /\ pc = "idle"

NextClassify == Classify

SpecClassify == InitClassify /\ [][NextClassify]_vars

----------------------------------------------------------------------------
(* Properties *)

\* severity tier of a status line: 0 has a 'U' code, 1 has an 'M' code, 2 neither
Tier(line) ==
    IF Char(line, 1) = "U" \/ Char(line, 2) = "U" THEN 0
    ELSE IF Char(line, 1) = "M" \/ Char(line, 2) = "M" THEN 1
    ELSE 2

\* the lines of a list that are in tier t, in the order of the list
RECURSIVE OfTier(_, _)
OfTier(seq, t) ==
    IF seq = <<>> THEN <<>>
    ELSE IF Tier(Head(seq)) = t THEN <<Head(seq)>> \o OfTier(Tail(seq), t)
    ELSE OfTier(Tail(seq), t)

Range(seq) == { seq[i] : i \in 1..Len(seq) }

EmptyLabel == format(<<>>)

\* the seven precedence rules of the classifier, by number
RuleMatches(k, u, t) ==
    CASE k = 1 -> u = "?" /\ t = "?"
      [] k = 2 -> u = " " /\ t = "M"
      [] k = 3 -> u \in {"M", "A", "C"}
      [] k = 4 -> u = "R"
      [] k = 5 -> u = "!"
      [] k = 6 -> u = "U" \/ t = "U" \/ (u = "A" /\ t = "A") \/ (u = "D" /\ t = "D")
      [] k = 7 -> TRUE

RuleCategory ==
    <<"Untracked", "Modified", "Staged", "Renamed", "Ignored", "Unmerged", "Unknown">>

\* C1: the classifier returns, for every pair of codes, the category of the
\* first rule (in the order 1..7) that the pair matches; ('U','U') is Unmerged.
C1_ClassifyFirstMatch ==
    pc = "done" =>
        /\ name = RuleCategory[Min({ k \in 1..7 : RuleMatches(k, us, them) })]
        /\ (us = "U" /\ them = "U" => name = "Unmerged")

\* ('A','A') matches rule 3 and rule 6 and is classified by rule 3
C1_Witness == pc = "done" /\ us = "A" /\ them = "A" /\ name = "Staged"

\* the path of the last candidate relative to the cached root
RelOfCall == SliceFrom(call.path, Len(git_root) + 1)

CallUnderRoot ==
    /\ call \in EntryCandidates
    /\ exc = "none"
    /\ git_root # None
    /\ StartsWith(call.path, git_root \o <<"/">>)

\* C2: a directory candidate matches a line whose path lies below it, and a
\* file candidate is never answered from a line whose path only continues the
\* candidate's name with more characters (`dir` against `dirty.txt`).
C2_PrefixSemantics ==
    CallUnderRoot =>
        LET entry == find_in_cache(cache, git_root, call)
            path  == SliceFrom(entry, 3)
        IN IF call.is_directory
           THEN (\E l \in Range(cache) : StartsWith(SliceFrom(l, 3), RelOfCall \o <<"/">>))
                    => entry # <<>>
           ELSE entry # <<>> =>
                    (Len(path) = Len(RelOfCall) \/ path[Len(RelOfCall) + 1] = "/")

\* the repository root the root query reports for a path
RepoRootOf(path) == find_git_root(TopLevelStdout(path))

\* C3: a get on a root candidate whose repository root differs from the cached
\* root runs exactly one status query, makes that root the cached root, and
\* leaves the snapshot of that query, run in the new root.
C3_RootSwitch ==
    [][ (call' \in RootCandidates /\ exc' = "none" /\ RepoRootOf(call'.path) # git_root)
            => /\ refreshes' = 1
               /\ git_root' = RepoRootOf(call'.path)
               /\ status_cwd' = git_root'
               /\ cache' = cache_status(Emit(status_out')) ]_vars

\* C4: a get on a root candidate never returns an indicator glyph: what it
\* returns is the empty label.
C4_RootHasNoGlyph ==
    call \in RootCandidates =>
        /\ ret \in {EmptyLabel, NoValue}
        /\ (exc = "none" => ret = EmptyLabel)

\* a root candidate outside every work tree asked about while lines are
\* cached and no root is set: the get went on to the cache lookup
C4_Witness ==
    /\ call = Candidate(Outside, TRUE, TRUE)
    /\ git_root = None
    /\ root_out = <<>>
    /\ refreshes = 0
    /\ LineUU \in Range(cache)
    /\ ret = EmptyLabel

\* C5: the snapshot is ordered by severity tier: 'U' lines, then 'M' lines,
\* then the rest, whatever order the status query printed them in.
C5_TierSorted ==
    \A i, j \in 1..Len(cache) : i < j => Tier(cache[i]) <= Tier(cache[j])

\* a listing printed least severe first, cached with all three tiers
C5_Witness ==
    /\ refreshes = 1
    /\ Len(status_out) = 3
    /\ Tier(status_out[1]) = 2
    /\ Tier(status_out[3]) = 0
    /\ { Tier(cache[i]) : i \in 1..Len(cache) } = {0, 1, 2}

\* C6: lines of one tier keep, in the snapshot, the order the status query
\* printed them in.
C6_StableSort ==
    \A t \in 0..2 : OfTier(cache, t) = OfTier(status_out, t)

\* the lines of the snapshot the last candidate's path matches
MatchesOfCall == { l \in Range(cache) : find_in_cache(<<l>>, git_root, call) = l }

\* C7: for a directory candidate that matches several lines, the line the
\* lookup returns is one of the most severe tier among the matching lines.
C7_MostSevereSurfaces ==
    (call \in EntryCandidates /\ call.is_directory /\ exc = "none" /\ MatchesOfCall # {}) =>
        LET entry == find_in_cache(cache, git_root, call) IN
        /\ entry \in MatchesOfCall
        /\ \A l \in MatchesOfCall : Tier(entry) <= Tier(l)
        /\ ret = format(indicators[get_indicator_name(entry[1], entry[2])])

\* a directory with a conflict printed after an untracked file shows the conflict
C7_Witness ==
    /\ call = Candidate(RepoR \o <<"/", "d">>, FALSE, TRUE)
    /\ git_root = RepoR
    /\ Len(status_out) >= 2
    /\ status_out[1] = LineQQ
    /\ {LineUU, LineQQ} \subseteq MatchesOfCall
    /\ ret = format(indicators["Unmerged"])

\* C8: with no cached root, a get on a root candidate whose root query prints
\* nothing returns the empty label, leaves the root unset and raises nothing.
C8_NotInRepository ==
    [][ (call' \in RootCandidates /\ git_root = None /\ root_out' = <<>>)
            => (ret' = EmptyLabel /\ git_root' = None /\ exc' = "none") ]_vars

C8_Witness ==
    /\ call = Candidate(Outside, TRUE, TRUE)
    /\ root_out = <<>>
    /\ refreshes = 0
    /\ git_root = None
    /\ ret = EmptyLabel
    /\ exc = "none"

\* C9: whatever fails in the root query or the status query, get returns a
\* label and raises no exception.
C9_NoFailureEscapes ==
    call # NoCall => (exc = "none" /\ ret # NoValue)

\* C10: a candidate that is not the root, asked about again with no status
\* query in between, gets the label it got before.
C10_Idempotent ==
    [][ (call' \in EntryCandidates /\ probe.cand = call') => ret' = probe.label ]_vars

\* a candidate that showed a glyph was asked about again
C10_Witness ==
    /\ probe.again
    /\ probe.cand = call
    /\ probe.label # EmptyLabel
    /\ ret = probe.label

\* C11: a status query that fails and prints only its error text leaves the
\* snapshot empty, and candidates that are not the root then get the empty label.
C11_FailedStatusLeavesEmpty ==
    status_out = <<FatalLine>> =>
        /\ cache = <<>>
        /\ (call \in EntryCandidates => ret = EmptyLabel)

\* C12: a malformed line of the status output is skipped: the refresh raises
\* nothing, the line is not cached, the well-formed lines of the output are.
C12_MalformedSkipped ==
    ShortLine \in Range(status_out) =>
        /\ ShortLine \notin Range(cache)
        /\ \A l \in Range(status_out) \ {ShortLine} : l \in Range(cache)
        /\ (refreshes = 1 => exc = "none")

\* C13: a get on a root candidate whose repository root has the value of the
\* cached root runs no status query, changes neither root nor snapshot and
\* returns the empty label.
C13_SameRootNoRefresh ==
    [][ (call' \in RootCandidates /\ exc' = "none" /\ RepoRootOf(call'.path) = git_root)
            => /\ refreshes' = 0
               /\ git_root' = git_root
               /\ cache' = cache
               /\ ret' = EmptyLabel ]_vars

\* how often x occurs in seq
Count(seq, x) == Cardinality({ i \in 1..Len(seq) : seq[i] = x })

\* two lists hold the same lines the same number of times
SameLines(a, b) == \A l \in Range(a) \cup Range(b) : Count(a, l) = Count(b, l)

\* C14: a refresh that completes leaves exactly the non-empty lines of the
\* status output in the snapshot, each once per occurrence and whole (codes,
\* separator, path with its spaces), no blank line, and nothing of the
\* snapshot before that the output does not print; no output, no snapshot.
C14_WholesaleReplacement ==
    [][ (refreshes' = 1 /\ exc' = "none")
            => /\ SameLines(cache', status_out')
               /\ <<>> \notin Range(cache')
               /\ (status_out' = <<>> => cache' = <<>>)
               /\ \A l \in Range(cache) \ Range(status_out') : l \notin Range(cache') ]_vars

\* a listing with a space in a path, cached whole and reordered
C14_Witness ==
    /\ refreshes = 1
    /\ exc = "none"
    /\ status_out = <<LineSP, LineUU>>
    /\ cache = <<LineUU, LineSP>>
    /\ SliceFrom(cache[2], 3) = <<"d", " ", "e">>

\* the reference lookup: the candidate's path with only a leading root/
\* removed, a '/' appended for a directory, first line whose path starts with it
ReferenceLookup(items, root, candidate) ==
    LET lead == Str(root) \o <<"/">>
        rel  == (IF StartsWith(candidate.path, lead)
                 THEN SliceFrom(candidate.path, Len(lead)) ELSE candidate.path)
                    \o (IF candidate.is_directory THEN <<"/">> ELSE <<>>)
        hits == { i \in 1..Len(items) : StartsWith(SliceFrom(items[i], 3), rel) }
    IN IF hits = {} THEN <<>> ELSE items[Min(hits)]

\* C15: the lookup returns what the reference lookup returns, and the label
\* of a candidate that is not the root is the label of that line.
C15_LookupIsReference ==
    (call \in EntryCandidates /\ exc = "none") =>
        /\ find_in_cache(cache, git_root, call) = ReferenceLookup(cache, git_root, call)
        /\ LET entry == ReferenceLookup(cache, git_root, call) IN
           ret = IF entry = <<>> THEN EmptyLabel
                 ELSE format(indicators[get_indicator_name(entry[1], entry[2])])

\* C16: a get on a candidate that is not the root, and a get on a root
\* candidate whose path starts with the cached root, change neither the root
\* nor the snapshot and run neither query.
C16_OnlyRootChangeHasEffects ==
    [][ (\/ call' \in EntryCandidates
         \/ (call' \in RootCandidates /\ git_root # None /\ StartsWith(call'.path, git_root)))
            => /\ git_root' = git_root
               /\ cache' = cache
               /\ root_out' = NotRun
               /\ refreshes' = 0
               /\ status_out' = status_out
               /\ status_cwd' = status_cwd ]_vars

\* a candidate below the root was answered with a glyph, from the cache alone
C16_Witness ==
    /\ call \in EntryCandidates
    /\ ret \notin {EmptyLabel, NoValue}
    /\ cache # <<>>
    /\ root_out = NotRun
    /\ refreshes = 0

C18_NoRootNoSnapshot ==
    git_root = None => (cache = <<>> /\ status_cwd # None)

\* C19: after a get on a root candidate returns, the cached root is the
\* repository root that encloses the candidate's path (unset if none does).
C19_RootIsEnclosingRepository ==
    (call \in RootCandidates /\ exc = "none") => git_root = RepoRootOf(call.path)

====
